---- MODULE Spec2Model ----
(***************************************************************************)
(* Model of the OTP / Google authentication backend (src/src/auth.py), the *)
(* support chat (src/src/chat.py) and the admin console (src/cli.py).      *)
(*                                                                         *)
(* The three MongoDB collections of the auth database and one chat         *)
(* collection are sequences of documents in natural (insertion) order:     *)
(* find_one and update_one act on the first document that matches the      *)
(* filter.  Strings are tuples of characters or chunks, so that len() and  *)
(* startswith() are computed and not assumed.  Timestamps kept only for    *)
(* bookkeeping (createdAt, updatedAt, verifiedAt) and the sessionId copied  *)
(* into a user record are left out: no handler modelled here reads them.   *)
(*                                                                         *)
(* Every HTTP request runs in a slot of reqs.  A handler that makes        *)
(* several store or oracle calls takes one step per call, so that requests *)
(* in different slots interleave exactly where the code allows it.         *)
(***************************************************************************)
EXTENDS Integers, Sequences, FiniteSets, TLC

VARIABLES
    sessions,   \* db.sessions   (auth.py:24)
    users,      \* db.users      (auth.py:25)
    prefs,      \* db.preferences (auth.py:27)
    nextTok,    \* number of the next token the OTP oracle issues
    reqs,       \* the requests in flight and the last response of each slot
    issued,     \* history: token number -> what send_otp knew when it got it
    saved,      \* history: session ids save_user_details succeeded for
    written,    \* history: session id -> the map of its last successful update
    chats,      \* client.chats: user id -> the user's chat collection
    clock,      \* the wall clock datetime.now() reads
    admin,      \* the console's foreground loop (cli.py:122-127)
    poll,       \* the console's listener thread (cli.py:72-92)
    shown,      \* history: what the listener printed, as positions in the chat
    stop        \* stop_event (cli.py:117)

authVars == <<sessions, users, prefs, nextTok, issued, saved, written>>

chatVars == <<chats, clock>>

consoleVars == <<admin, poll, shown, stop>>

vars == <<authVars, reqs, chatVars, consoleVars>>

-----------------------------------------------------------------------------
(* Values *)

\* Python's None; no string of the model is this tuple.
None == <<"None">>

\* Truthiness of an Optional[str]: None and "" are falsy.
Truthy(s) == s # None /\ s # <<>>

M1 == <<"9", "8", "7", "6", "5", "4", "3", "2", "1", "0">>

M2 == <<"9", "8", "7", "6", "5", "4", "3", "2", "1", "1">>

\* The numbers OTPs are requested for.
Mobiles == {M1, M2}

\* A session id the OTP oracle issued: 2factor.in's "Details" token.
Tok(n) == <<"otp-", n>>

\* A Clerk id: the external scheme's identifier.
Clerk(n) == <<"user_", n>>

ClerkIds == {Clerk(1), Clerk(2)}

\* session_id.startswith('user_')
StartsWithUser(s) == s[1] = "user_"

E1 == <<"a@x">>

E2 == <<"b@x">>

Emails == {E1, E2}

FirstNames == {<<"Ann">>}

\* Bound: how many tokens the OTP oracle issues in a run.
MaxTokens == 2

\* Bound: how many user records a run creates (an insert past it is not taken).
MaxUsers == 2

\* Bound: how many messages a run puts into a chat collection.
MaxMsgs == 3

\* Bound: how many lines a run lets the console's listener print.
MaxShown == 4

\* Bound: the last reading of the wall clock.
MaxClock == 2

\* Bound: how many requests may overlap in the concurrent specifications.
MaxOverlap == 2

Procs == 1..MaxOverlap

Flags == {"pushPromotions", "pushProductUpdates", "pushAccountActivity",
          "emailPromotions", "emailProductUpdates", "emailNewsletters",
          "emailAccountActivity", "smsAccountActivity", "whatsappPromotions"}

DEFAULT_PREFERENCES == [f \in Flags |-> TRUE]

-----------------------------------------------------------------------------
(* The document store: first match in natural order *)

\* Index of the first TRUE of hits (one entry per document, in natural
\* order), 0 if there is none.
FirstIdx(hits) ==
    IF \E i \in DOMAIN hits : hits[i]
    THEN CHOOSE i \in DOMAIN hits : hits[i] /\ \A j \in 1..(i - 1) : ~hits[j]
    ELSE 0

\* What find_one returns when nothing matches (Python's None, as the result
\* of a lookup); a document found is returned as <<document>>.
NotFound == <<>>

\* find_one: the first matching document.
FindOne(coll, hits) ==
    LET i == FirstIdx(hits) IN IF i = 0 THEN NotFound ELSE <<coll[i]>>

\* {"sessionId": sid}
HitsSid(sid) == [i \in DOMAIN sessions |-> sessions[i].sessionId = sid]

\* {"sessionId": sid, "verified": True}
HitsVerifiedSid(sid) ==
    [i \in DOMAIN sessions |->
        sessions[i].sessionId = sid /\ sessions[i].verified]

\* {"mobileNumber": m} on sessions
HitsSessionMobile(m) ==
    [i \in DOMAIN sessions |-> sessions[i].mobileNumber = m]

\* {"mobileNumber": m} on users
HitsMobile(m) == [i \in DOMAIN users |-> users[i].mobileNumber = m]

\* {"clerkSessionId": c} on users
HitsClerk(c) == [i \in DOMAIN users |-> users[i].clerkSessionId = c]

\* {"email": e} on users
HitsEmail(e) == [i \in DOMAIN users |-> users[i].email = e]

\* sessions_collection.find_one({"sessionId": sid})
SessionBySid(sid) == FindOne(sessions, HitsSid(sid))

\* sessions_collection.find_one({"sessionId": sid, "verified": True})
VerifiedSession(sid) == FindOne(sessions, HitsVerifiedSid(sid))

\* users_collection.find_one({"mobileNumber": m})
UserByMobile(m) == FindOne(users, HitsMobile(m))

\* users_collection.find_one({"clerkSessionId": c})
UserByClerk(c) == FindOne(users, HitsClerk(c))

\* users_collection.find_one({"email": e})
UserByEmail(e) == FindOne(users, HitsEmail(e))

-----------------------------------------------------------------------------
(* Requests *)

NoResp == [status |-> 0, detail |-> "", body |-> None]

Ok(body) == [status |-> 200, detail |-> "", body |-> body]

Err(status, detail) == [status |-> status, detail |-> detail, body |-> None]

Idle == [op |-> "idle", pc |-> "idle", sid |-> None, mob |-> None,
         email |-> None, firstName |-> None, lastName |-> None,
         arg |-> None, loc |-> None, resp |-> NoResp]

\* A slot is free before its first request and after each response.
Free(p) == reqs[p].pc \in {"idle", "done"}

Begin(p, r) == reqs' = [reqs EXCEPT ![p] = r]

Step(p, pc, loc) == reqs' = [reqs EXCEPT ![p].pc = pc, ![p].loc = loc]

\* The response is sent: the slot keeps the operation, the session id it was
\* called with and the response; the handler's other locals are gone.
Done(op, sid, resp) ==
    [Idle EXCEPT !.op = op, !.pc = "done", !.sid = sid, !.resp = resp]

Finish(p, resp) == reqs' = [reqs EXCEPT ![p] = Done(@.op, @.sid, resp)]

AuthInit ==
    /\ sessions = <<>>
    /\ users = <<>>
    /\ prefs = <<>>
    /\ nextTok = 1
    /\ issued = <<>>
    /\ saved = {}
    /\ written = <<>>

-----------------------------------------------------------------------------
(* Identity resolution *)

\* get_user_by_session (auth.py:88-107): a Clerk id is looked up directly, a
\* mobile session id goes through its verified session's mobile number.
get_user_by_session(session_id) ==
    IF StartsWithUser(session_id)
    THEN UserByClerk(session_id)
    ELSE LET session_record == VerifiedSession(session_id) IN
         IF session_record = NotFound
         THEN NotFound
         ELSE UserByMobile(session_record[1].mobileNumber)

-----------------------------------------------------------------------------
(* POST /send-otp *)

OracleOutcomes == {"ok", "rejected", "unparsable"}

\* The request arrives and the oracle is called (auth.py:114-125).  On success
\* the oracle's token is the session id.
SendOtpCall(p, m, outcome) ==
    /\ Free(p)
    /\ CASE outcome = "unparsable" ->
              /\ Begin(p, Done("send_otp", None,
                                  Err(500, "Invalid response from 2factor.in")))
              /\ UNCHANGED <<nextTok, issued>>
         [] outcome = "rejected" ->
              /\ Begin(p, Done("send_otp", None, Err(400, "Failed to send OTP")))
              /\ UNCHANGED <<nextTok, issued>>
         [] outcome = "ok" ->
              /\ nextTok <= MaxTokens
              /\ Begin(p, [Idle EXCEPT !.op = "send_otp", !.pc = "so_upsert",
                             !.mob = m, !.sid = Tok(nextTok)])
              /\ nextTok' = nextTok + 1
              /\ issued' = Append(issued,
                     [mobileNumber |-> m, newUser |-> UserByMobile(m) = NotFound])
    /\ UNCHANGED <<sessions, users, prefs, saved, written,
                 chatVars, consoleVars>>

\* A send_otp update that leaves the stored sessionId as it was.
SendOtpSetKeepsToken(doc, sid) == [doc EXCEPT !.verified = FALSE]

\* The document send_otp's update sets on a matching session (auth.py:131-136):
\* userDetailsCompleted is not among the fields set.
SendOtpSet(doc, sid) == [doc EXCEPT !.sessionId = sid, !.verified = FALSE]

\* update_one({"mobileNumber": m}, {"$set": ...}, upsert=True) (auth.py:128-139),
\* query phase: a matching document is updated in place.  With no match the
\* operation goes on to insert; the collection has no unique index on
\* mobileNumber, so the store does not serialize that insert with another
\* upsert's.
SendOtpUpsert(p) ==
    /\ reqs[p].pc = "so_upsert"
    /\ LET i == FirstIdx(HitsSessionMobile(reqs[p].mob)) IN
       IF i # 0
       THEN /\ sessions' = [sessions EXCEPT ![i] = SendOtpSet(@, reqs[p].sid)]
            /\ Finish(p, Ok([sessionId |-> reqs[p].sid]))
       ELSE /\ Step(p, "so_insert", None)
            /\ UNCHANGED sessions
    /\ UNCHANGED <<users, prefs, nextTok, issued, saved, written,
                 chatVars, consoleVars>>

\* The upsert's insert phase: a new session document.
SendOtpInsert(p) ==
    /\ reqs[p].pc = "so_insert"
    /\ sessions' = Append(sessions,
           [mobileNumber |-> reqs[p].mob, sessionId |-> reqs[p].sid,
            verified |-> FALSE, userDetailsCompleted |-> FALSE])
    /\ Finish(p, Ok([sessionId |-> reqs[p].sid]))
    /\ UNCHANGED <<users, prefs, nextTok, issued, saved, written,
                 chatVars, consoleVars>>

-----------------------------------------------------------------------------
(* POST /verify-otp *)

\* record = find_one({"sessionId": ...}) (auth.py:146-149)
VerifyOtpFind(p, sid) ==
    /\ Free(p)
    /\ LET record == SessionBySid(sid) IN
       IF record = NotFound
       THEN Begin(p, Done("verify_otp", sid,
                            Err(400, "Invalid or expired sessionId")))
       ELSE Begin(p, [Idle EXCEPT !.op = "verify_otp", !.pc = "vo_oracle",
                        !.sid = sid, !.loc = record[1]])
    /\ UNCHANGED <<sessions, users, prefs, nextTok, issued, saved, written,
                 chatVars, consoleVars>>

\* The oracle checks the code (auth.py:151-160).
VerifyOtpOracle(p, outcome) ==
    /\ reqs[p].pc = "vo_oracle"
    /\ CASE outcome = "unparsable" ->
              Finish(p, Err(500, "Invalid response from 2factor.in"))
         [] outcome = "rejected" ->
              Finish(p, Err(400, "OTP verification failed"))
         [] outcome = "ok" ->
              Step(p, "vo_update", reqs[p].loc)
    /\ UNCHANGED <<sessions, users, prefs, nextTok, issued, saved, written,
                 chatVars, consoleVars>>

\* update_one({"sessionId": ...}, {"$set": {"verified": True}}) (auth.py:163-172):
\* no upsert, and the result is not looked at.
VerifyOtpUpdate(p) ==
    /\ reqs[p].pc = "vo_update"
    /\ LET i == FirstIdx(HitsSid(reqs[p].sid)) IN
       sessions' = IF i = 0 THEN sessions
                   ELSE [sessions EXCEPT ![i].verified = TRUE]
    /\ Step(p, "vo_return", reqs[p].loc)
    /\ UNCHANGED <<users, prefs, nextTok, issued, saved, written,
                 chatVars, consoleVars>>

\* user_exists from the record read at the start (auth.py:175-178).
VerifyOtpReturn(p) ==
    /\ reqs[p].pc = "vo_return"
    /\ Finish(p, Ok([success |-> TRUE,
                     userExists |-> UserByMobile(reqs[p].loc.mobileNumber) # NotFound]))
    /\ UNCHANGED <<sessions, users, prefs, nextTok, issued, saved, written,
                 chatVars, consoleVars>>

-----------------------------------------------------------------------------
(* POST /validate-session *)

\* A validate_session without the user lookup: a verified session is enough.
validate_session_verified_only(sid) ==
    [success |-> VerifiedSession(sid) # NotFound]

\* The handler's result (auth.py:183-198): two reads, no write.
validate_session(sid) ==
    LET session_doc == VerifiedSession(sid) IN
    IF session_doc = NotFound
    THEN [success |-> FALSE]
    ELSE IF UserByMobile(session_doc[1].mobileNumber) # NotFound
         THEN [success |-> TRUE]
         ELSE [success |-> FALSE]

ValidateSession(p, sid) ==
    /\ Free(p)
    /\ Begin(p, Done("validate_session", sid, Ok(validate_session(sid))))
    /\ UNCHANGED <<sessions, users, prefs, nextTok, issued, saved, written,
                 chatVars, consoleVars>>

-----------------------------------------------------------------------------
(* POST /save-user-details *)

\* A save_user_details that checks the session and not the mobile number.
SaveDetailsFindSessionAnyNumber(p, sid, m, firstName, lastName, email) ==
    /\ Free(p)
    /\ LET r == [Idle EXCEPT !.op = "save_user_details", !.sid = sid, !.mob = m,
                             !.firstName = firstName, !.lastName = lastName,
                             !.email = email]
       IN
       IF VerifiedSession(sid) = NotFound
       THEN Begin(p, [Done(r.op, sid, Err(400, "Invalid or unverified session"))
                         EXCEPT !.mob = m])
       ELSE Begin(p, [r EXCEPT !.pc = "sd_finduser"])
    /\ UNCHANGED <<sessions, users, prefs, nextTok, issued, saved, written,
                 chatVars, consoleVars>>

\* The session check and the mobile number check (auth.py:203-213).  A refused
\* request keeps the number it was called with, with its response.
SaveDetailsFindSession(p, sid, m, firstName, lastName, email) ==
    /\ Free(p)
    /\ LET session_record == VerifiedSession(sid)
           r == [Idle EXCEPT !.op = "save_user_details", !.sid = sid, !.mob = m,
                             !.firstName = firstName, !.lastName = lastName,
                             !.email = email]
       IN
       IF session_record = NotFound
       THEN Begin(p, [Done(r.op, sid, Err(400, "Invalid or unverified session"))
                         EXCEPT !.mob = m])
       ELSE IF session_record[1].mobileNumber # m
       THEN Begin(p, [Done(r.op, sid, Err(400, "Mobile number mismatch"))
                         EXCEPT !.mob = m])
       ELSE Begin(p, [r EXCEPT !.pc = "sd_finduser"])
    /\ UNCHANGED <<sessions, users, prefs, nextTok, issued, saved, written,
                 chatVars, consoleVars>>

\* existing_user = find_one({"mobileNumber": ...}) (auth.py:216)
SaveDetailsFindUser(p) ==
    /\ reqs[p].pc = "sd_finduser"
    /\ Step(p, "sd_write", UserByMobile(reqs[p].mob))
    /\ UNCHANGED <<sessions, users, prefs, nextTok, issued, saved, written,
                 chatVars, consoleVars>>

\* user_data set on an existing user (auth.py:218-232): the fields of the
\* request, the keys of the other scheme left as they are.
SaveDetailsSet(doc, r) ==
    [doc EXCEPT !.mobileNumber = r.mob, !.firstName = r.firstName,
                !.lastName = r.lastName, !.email = r.email]

\* user_data inserted as a new user (auth.py:236-239): no clerkSessionId and no
\* authProvider field.  origin is history: the scheme that created the record.
SaveDetailsNew(id, r) ==
    [id |-> id, mobileNumber |-> r.mob, firstName |-> r.firstName,
     lastName |-> r.lastName, email |-> r.email,
     clerkSessionId |-> None, authProvider |-> None, origin |-> "mobile"]

\* update_one or insert_one, on what the earlier read found (auth.py:227-239).
SaveDetailsWrite(p) ==
    /\ reqs[p].pc = "sd_write"
    /\ IF reqs[p].loc # NotFound
       THEN /\ LET i == FirstIdx(HitsMobile(reqs[p].mob)) IN
               users' = IF i = 0 THEN users
                        ELSE [users EXCEPT ![i] = SaveDetailsSet(@, reqs[p])]
            /\ Step(p, "sd_session", reqs[p].loc[1].id)
       ELSE /\ Len(users) < MaxUsers
            /\ users' = Append(users, SaveDetailsNew(Len(users) + 1, reqs[p]))
            /\ Step(p, "sd_prefs", Len(users) + 1)
    /\ UNCHANGED <<sessions, prefs, nextTok, issued, saved, written,
                 chatVars, consoleVars>>

\* Default preferences for a new user (auth.py:242-249).
SaveDetailsPrefs(p) ==
    /\ reqs[p].pc = "sd_prefs"
    /\ prefs' = Append(prefs,
           [userId |-> reqs[p].loc, sessionId |-> reqs[p].sid,
            clerkSessionId |-> None, preferences |-> DEFAULT_PREFERENCES])
    /\ Step(p, "sd_session", reqs[p].loc)
    /\ UNCHANGED <<sessions, users, nextTok, issued, saved, written,
                 chatVars, consoleVars>>

\* The completion flag on the session, and the response (auth.py:258-268).
SaveDetailsSession(p) ==
    /\ reqs[p].pc = "sd_session"
    /\ LET i == FirstIdx(HitsSid(reqs[p].sid)) IN
       sessions' = IF i = 0 THEN sessions
                   ELSE [sessions EXCEPT ![i].userDetailsCompleted = TRUE]
    /\ Finish(p, Ok([success |-> TRUE]))
    /\ saved' = saved \cup {reqs[p].sid}
    /\ UNCHANGED <<users, prefs, nextTok, issued, written,
                 chatVars, consoleVars>>

-----------------------------------------------------------------------------
(* GET /user-profile/{session_id} *)

\* The projection {"_id": 0, "sessionId": 0} of a user document
\* (auth.py:283-286); origin is history and no field of the document.
Profile(doc) ==
    [mobileNumber |-> doc.mobileNumber, firstName |-> doc.firstName,
     lastName |-> doc.lastName, email |-> doc.email,
     clerkSessionId |-> doc.clerkSessionId, authProvider |-> doc.authProvider]

\* The handler's result (auth.py:271-291): the verified session with the id,
\* then the user of its mobile number; the id's scheme is not looked at.
get_user_profile(session_id) ==
    LET session_record == VerifiedSession(session_id) IN
    IF session_record = NotFound
    THEN Err(400, "Invalid or unverified session")
    ELSE LET user_record == UserByMobile(session_record[1].mobileNumber) IN
         IF user_record = NotFound
         THEN Err(404, "User profile not found")
         ELSE Ok(Profile(user_record[1]))

GetUserProfile(p, session_id) ==
    /\ Free(p)
    /\ Begin(p, Done("get_user_profile", session_id, get_user_profile(session_id)))
    /\ UNCHANGED <<authVars, chatVars, consoleVars>>

-----------------------------------------------------------------------------
(* POST /save-google-user-details *)

\* A login that sets on an existing user what is meant for a new one as well:
\* mobileNumber None.
SaveGoogleSetResetsMobile(doc, clerk, email, firstName, lastName) ==
    [doc EXCEPT !.email = email, !.firstName = firstName, !.lastName = lastName,
                !.clerkSessionId = clerk, !.authProvider = "google",
                !.mobileNumber = None]

\* user_data_to_set on an existing user found by email (auth.py:318-337).
SaveGoogleSet(doc, clerk, email, firstName, lastName) ==
    [doc EXCEPT !.email = email, !.firstName = firstName, !.lastName = lastName,
                !.clerkSessionId = clerk, !.authProvider = "google"]

\* new_user_data (auth.py:318-330, 350): mobileNumber explicitly None.
SaveGoogleNew(id, clerk, email, firstName, lastName) ==
    [id |-> id, mobileNumber |-> None, firstName |-> firstName,
     lastName |-> lastName, email |-> email,
     clerkSessionId |-> clerk, authProvider |-> "google", origin |-> "google"]

SaveGoogleUserDetails(p, clerk, email, firstName, lastName) ==
    /\ Free(p)
    /\ LET r == Done("save_google_user_details", clerk, NoResp)
           i == FirstIdx(HitsEmail(email))
       IN
       IF ~Truthy(clerk)
       THEN /\ Begin(p, [r EXCEPT !.resp = Err(400, "Clerk session ID is required")])
            /\ UNCHANGED <<users, prefs>>
       ELSE IF ~Truthy(email)
       THEN /\ Begin(p, [r EXCEPT !.resp = Err(400, "Email is required")])
            /\ UNCHANGED <<users, prefs>>
       ELSE IF ~Truthy(firstName)
       THEN /\ Begin(p, [r EXCEPT !.resp = Err(400, "First name is required")])
            /\ UNCHANGED <<users, prefs>>
       ELSE IF i # 0
       THEN /\ users' = [users EXCEPT
                            ![i] = SaveGoogleSet(@, clerk, email, firstName, lastName)]
            /\ UNCHANGED prefs
            /\ Begin(p, [r EXCEPT !.resp = Ok([success |-> TRUE, userExists |-> TRUE])])
       ELSE /\ Len(users) < MaxUsers
            /\ users' = Append(users,
                   SaveGoogleNew(Len(users) + 1, clerk, email, firstName, lastName))
            /\ prefs' = Append(prefs,
                   [userId |-> Len(users) + 1, sessionId |-> None,
                    clerkSessionId |-> clerk, preferences |-> DEFAULT_PREFERENCES])
            /\ Begin(p, [r EXCEPT !.resp = Ok([success |-> TRUE, userExists |-> FALSE])])
    /\ UNCHANGED <<sessions, nextTok, issued, saved, written,
                 chatVars, consoleVars>>

-----------------------------------------------------------------------------
(* POST /add-mobile-to-google-user *)

\* The length the handler requires (auth.py:427).
MobileLen == 10

\* The three input checks (auth.py:421-428): the error of the first that fails,
\* NoResp when all pass.  Only the length of the number is looked at.
AddMobileCheck(clerk, mobileNumber) ==
    IF ~Truthy(clerk) THEN Err(400, "Clerk session ID is required")
    ELSE IF ~Truthy(mobileNumber) THEN Err(400, "Mobile number is required")
    ELSE IF Len(mobileNumber) # MobileLen
    THEN Err(400, "Mobile number must be 10 digits")
    ELSE NoResp

AddMobileToGoogleUser(p, clerk, mobileNumber) ==
    /\ Free(p)
    /\ LET r == [Done("add_mobile_to_google_user", clerk, NoResp)
                    EXCEPT !.mob = mobileNumber]
           bad == AddMobileCheck(clerk, mobileNumber)
           i == FirstIdx(HitsClerk(clerk))
       IN
       IF bad # NoResp
       THEN /\ Begin(p, [r EXCEPT !.resp = bad])
            /\ UNCHANGED users
       ELSE IF i = 0
       THEN /\ Begin(p, [r EXCEPT !.resp = Err(404, "User not found")])
            /\ UNCHANGED users
       ELSE /\ users' = [users EXCEPT ![i].mobileNumber = mobileNumber]
            /\ Begin(p, [r EXCEPT !.resp = Ok([success |-> TRUE])])
    /\ UNCHANGED <<sessions, prefs, nextTok, issued, saved, written,
                 chatVars, consoleVars>>

-----------------------------------------------------------------------------
(* Preferences *)

\* {"clerkSessionId": s} or {"sessionId": s} on preferences, by the scheme of
\* the session id (auth.py:481-486, 518-529).
HitsPrefs(session_id) ==
    [i \in DOMAIN prefs |->
        IF StartsWithUser(session_id)
        THEN prefs[i].clerkSessionId = session_id
        ELSE prefs[i].sessionId = session_id]

\* GET /get-preferences/{session_id} (auth.py:469-498)
get_preferences(session_id) ==
    IF get_user_by_session(session_id) = NotFound
    THEN Err(404, "User not found")
    ELSE LET prefs_record == FindOne(prefs, HitsPrefs(session_id)) IN
         IF prefs_record # NotFound
         THEN Ok(prefs_record[1].preferences)
         ELSE Ok(DEFAULT_PREFERENCES)

GetPreferences(p, session_id) ==
    /\ Free(p)
    /\ Begin(p, Done("get_preferences", session_id, get_preferences(session_id)))
    /\ UNCHANGED <<sessions, users, prefs, nextTok, issued, saved, written,
                 chatVars, consoleVars>>

\* An update that writes the request's map only into a new document and keeps
\* the map of a document that already has one.
UpdatePrefsSetKeepsOld(doc, user, session_id, preferences) ==
    IF StartsWithUser(session_id)
    THEN [doc EXCEPT !.userId = user.id, !.clerkSessionId = session_id,
                     !.preferences = IF @ = None THEN preferences ELSE @]
    ELSE [doc EXCEPT !.userId = user.id, !.sessionId = session_id,
                     !.preferences = IF @ = None THEN preferences ELSE @]

\* update_data (auth.py:518-535): the key of the session id's scheme, the
\* resolved user's id and the whole map of the request.
UpdatePrefsSet(doc, user, session_id, preferences) ==
    IF StartsWithUser(session_id)
    THEN [doc EXCEPT !.userId = user.id, !.clerkSessionId = session_id,
                     !.preferences = preferences]
    ELSE [doc EXCEPT !.userId = user.id, !.sessionId = session_id,
                     !.preferences = preferences]

\* POST /update-preferences (auth.py:501-555): an upsert on the session id.
UpdatePreferences(p, session_id, preferences) ==
    /\ Free(p)
    /\ LET r == Done("update_preferences", session_id, NoResp)
           user == get_user_by_session(session_id)
           i == FirstIdx(HitsPrefs(session_id))
           blank == [userId |-> None, sessionId |-> None, clerkSessionId |-> None,
                     preferences |-> None]
       IN
       IF user = NotFound
       THEN /\ Begin(p, [r EXCEPT !.resp = Err(404, "User not found")])
            /\ UNCHANGED <<prefs, written>>
       ELSE IF \E k \in DOMAIN preferences : preferences[k] \notin BOOLEAN
       THEN /\ Begin(p, [r EXCEPT !.resp = Err(400, "Preference must be a boolean")])
            /\ UNCHANGED <<prefs, written>>
       ELSE /\ prefs' = IF i # 0
                        THEN [prefs EXCEPT
                                 ![i] = UpdatePrefsSet(@, user[1], session_id, preferences)]
                        ELSE Append(prefs,
                                 UpdatePrefsSet(blank, user[1], session_id, preferences))
            /\ Begin(p, [r EXCEPT !.resp = Ok([success |-> TRUE])])
            /\ written' = [x \in DOMAIN written \cup {session_id} |->
                              IF x = session_id THEN preferences ELSE written[x]]
    /\ UNCHANGED <<sessions, users, nextTok, issued, saved,
                 chatVars, consoleVars>>

-----------------------------------------------------------------------------
(* POST /update-user-details *)

\* update_data is empty (auth.py:567-576): firstName and email count when
\* truthy, lastName when it is not None.
NoUpdateData(r) ==
    ~Truthy(r.firstName) /\ r.lastName = None /\ ~Truthy(r.email)

\* {"$set": update_data} on a user document (auth.py:567-573).
UpdateDetailsSet(doc, r) ==
    [doc EXCEPT !.firstName = IF Truthy(r.firstName) THEN r.firstName ELSE @,
                !.lastName = IF r.lastName # None THEN r.lastName ELSE @,
                !.email = IF Truthy(r.email) THEN r.email ELSE @]

\* The user is resolved and update_data built (auth.py:563-576).  A response
\* keeps the fields the request was called with.
UpdateDetailsResolve(p, sid, firstName, lastName, email) ==
    /\ Free(p)
    /\ LET r == [Idle EXCEPT !.op = "update_user_details", !.sid = sid,
                             !.firstName = firstName, !.lastName = lastName,
                             !.email = email]
           user == get_user_by_session(sid)
       IN
       IF user = NotFound
       THEN Begin(p, [r EXCEPT !.pc = "done",
                        !.resp = Err(404, "User not found or session invalid")])
       ELSE IF NoUpdateData(r)
       THEN Begin(p, [r EXCEPT !.pc = "done",
                        !.resp = Ok([success |-> TRUE,
                                     message |-> "No data to update."])])
       ELSE IF user[1].authProvider = "google"
       THEN Begin(p, [r EXCEPT !.pc = "ud_write", !.loc = [key |-> "clerk"]])
       ELSE Begin(p, [r EXCEPT !.pc = "ud_session", !.loc = [key |-> "mobile"]])
    /\ UNCHANGED <<authVars, chatVars, consoleVars>>

\* session_record = find_one({"sessionId": ...}) (auth.py:582): the filter has
\* no verified, and a missing record makes the subscript raise, which the
\* handler turns into a 500 (auth.py:589-591).
UpdateDetailsSession(p) ==
    /\ reqs[p].pc = "ud_session"
    /\ LET session_record == SessionBySid(reqs[p].sid) IN
       IF session_record = NotFound
       THEN reqs' = [reqs EXCEPT ![p].pc = "done", ![p].loc = None,
                                 ![p].resp = Err(500, "Internal server error")]
       ELSE reqs' = [reqs EXCEPT ![p].pc = "ud_write",
                       ![p].loc = [key |-> "mobile",
                                   mobileNumber |-> session_record[1].mobileNumber]]
    /\ UNCHANGED <<authVars, chatVars, consoleVars>>

\* update_one on the key chosen by the resolved user's authProvider
\* (auth.py:579-585): {"clerkSessionId": sessionId} or {"mobileNumber": ...}.
\* The result is not looked at.
UpdateDetailsWrite(p) ==
    /\ reqs[p].pc = "ud_write"
    /\ LET i == IF reqs[p].loc.key = "clerk"
                THEN FirstIdx(HitsClerk(reqs[p].sid))
                ELSE FirstIdx(HitsMobile(reqs[p].loc.mobileNumber))
       IN
       users' = IF i = 0 THEN users
                ELSE [users EXCEPT ![i] = UpdateDetailsSet(@, reqs[p])]
    /\ reqs' = [reqs EXCEPT ![p].pc = "done", ![p].loc = None,
                            ![p].resp = Ok([success |-> TRUE,
                                message |-> "User details updated successfully"])]
    /\ UNCHANGED <<sessions, prefs, nextTok, issued, saved, written,
                 chatVars, consoleVars>>

-----------------------------------------------------------------------------
(* Chat: src/src/chat.py *)

\* find_user_by_session of chat.py (chat.py:50-61).
find_user_by_session(session_id) ==
    IF StartsWithUser(session_id)
    THEN UserByClerk(session_id)
    ELSE LET session_record == VerifiedSession(session_id) IN
         IF session_record # NotFound
         THEN UserByMobile(session_record[1].mobileNumber)
         ELSE NotFound

BotWelcome == "Thank you for contacting support! An agent will be with you shortly."

ImageUrl == "https://i.ibb.co/img.png"

\* datetime.now(timezone.utc): the clock is read, it does not move by itself.
Now == clock

Tick ==
    /\ clock < MaxClock
    /\ clock' = clock + 1
    /\ UNCHANGED <<authVars, reqs, chats, consoleVars>>

Msg(sender, text, timestamp) ==
    [sender |-> sender, text |-> text, timestamp |-> timestamp]

\* A write that replaces the sender's earlier message where there is one
\* (an upsert keyed on the sender) instead of inserting.
InsertReplaces(uid, doc) ==
    LET chan == chats[uid]
        same == {i \in DOMAIN chan : chan[i].sender = doc.sender}
    IN chats' = [chats EXCEPT ![uid] =
                    IF same = {} THEN Append(chan, doc)
                    ELSE [chan EXCEPT ![CHOOSE i \in same : \A j \in same : i <= j] = doc]]

\* insert_one on the chat collection of user uid.
Insert(uid, doc) == chats' = [chats EXCEPT ![uid] = Append(@, doc)]

\* Positions of chan in S by ascending timestamp: sort("timestamp", 1), equal
\* timestamps in natural order.
RECURSIVE SortAsc(_, _)
SortAsc(chan, S) ==
    IF S = {} THEN <<>>
    ELSE LET m == CHOOSE i \in S : \A j \in S :
                     \/ chan[i].timestamp < chan[j].timestamp
                     \/ chan[i].timestamp = chan[j].timestamp /\ i <= j
         IN <<m>> \o SortAsc(chan, S \ {m})

\* count_documents({"sender": "user"}) (chat.py:99)
CountUser(chan) == Cardinality({i \in DOMAIN chan : chan[i].sender = "user"})

\* MessageResponse (chat.py:74-79) of a stored message.
MessageResponse(msg) ==
    [text |-> msg.text, timestamp |-> msg.timestamp, isUser |-> msg.sender = "user"]

\* The chat in ascending timestamp order, as responses (chat.py:72-81).
History(chan) ==
    LET order == SortAsc(chan, DOMAIN chan) IN
    [k \in DOMAIN order |-> MessageResponse(chan[order[k]])]

\* GET /chat/history/{session_id} (chat.py:64-82): an empty list for an
\* unknown session, no write.
GetChatHistory(p, sid) ==
    /\ Free(p)
    /\ LET user == find_user_by_session(sid) IN
       Begin(p, Done("get_chat_history", sid,
                     Ok(IF user = NotFound THEN <<>>
                        ELSE History(chats[user[1].id]))))
    /\ UNCHANGED <<authVars, chatVars, consoleVars>>

\* Inserts the request in a slot may still make.
Pend(r) ==
    CASE r.pc = "sm_insert" -> 2
      [] r.pc \in {"sm_count", "sm_bot", "up_oracle", "up_insert"} -> 1
      [] OTHER -> 0

RECURSIVE PendUpTo(_)
PendUpTo(n) == IF n = 0 THEN 0 ELSE Pend(reqs[n]) + PendUpTo(n - 1)

\* A bound of cap messages leaves room for n more in the chat of uid.
Room(uid, n, cap) ==
    Len(chats[uid]) + PendUpTo(MaxOverlap)
        + (IF admin.pc = "insert" THEN 1 ELSE 0) + n <= cap

\* Room for every slot to send a first message and have it welcomed.
MaxBurst == 2 * MaxOverlap

\* POST /chat/send-message: the user is resolved and the user message built
\* with the time of now (chat.py:90-96).  The slot's arg is history, kept
\* with the response: the chat, whether it was empty at the call (first),
\* whether it had a user message then (later), and where the request's user
\* message went (mine).  The run holds at most cap messages.
SendMessageStart(p, sid, text, cap) ==
    /\ Free(p)
    /\ LET user == find_user_by_session(sid) IN
       IF user = NotFound
       THEN Begin(p, Done("send_message", sid,
                          Err(404, "User not found for the given session.")))
       ELSE /\ Room(user[1].id, 2, cap)
            /\ Begin(p, [Idle EXCEPT !.op = "send_message", !.pc = "sm_insert",
                           !.sid = sid,
                           !.arg = [uid |-> user[1].id,
                                    first |-> chats[user[1].id] = <<>>,
                                    later |-> CountUser(chats[user[1].id]) > 0,
                                    mine |-> 0],
                           !.loc = [uid |-> user[1].id,
                                    doc |-> Msg("user", text, Now)]])
    /\ UNCHANGED <<authVars, chatVars, consoleVars>>

\* chat_collection.insert_one(user_message_doc) (chat.py:97)
SendMessageInsert(p) ==
    /\ reqs[p].pc = "sm_insert"
    /\ Insert(reqs[p].loc.uid, reqs[p].loc.doc)
    /\ reqs' = [reqs EXCEPT ![p].pc = "sm_count",
                            ![p].arg.mine = Len(chats[reqs[p].loc.uid]) + 1]
    /\ UNCHANGED <<authVars, clock, consoleVars>>

\* A send that decides on the welcome by the count of user messages read
\* before its own insert.
SendMessageCountAtCall(p) ==
    /\ reqs[p].pc = "sm_count"
    /\ IF ~reqs[p].arg.later
       THEN reqs' = [reqs EXCEPT ![p].pc = "sm_bot",
                                 ![p].loc.doc = Msg("bot", BotWelcome, Now)]
       ELSE reqs' = [reqs EXCEPT ![p] = [Done(@.op, @.sid, Ok("Message received."))
                                           EXCEPT !.arg = reqs[p].arg]]
    /\ UNCHANGED <<authVars, chatVars, consoleVars>>

\* The count of user messages read after the insert decides on the welcome
\* message, which is built with the time of now (chat.py:99-101).
SendMessageCount(p) ==
    /\ reqs[p].pc = "sm_count"
    /\ IF CountUser(chats[reqs[p].loc.uid]) = 1
       THEN reqs' = [reqs EXCEPT ![p].pc = "sm_bot",
                                 ![p].loc.doc = Msg("bot", BotWelcome, Now)]
       ELSE reqs' = [reqs EXCEPT ![p] = [Done(@.op, @.sid, Ok("Message received."))
                                           EXCEPT !.arg = reqs[p].arg]]
    /\ UNCHANGED <<authVars, chatVars, consoleVars>>

\* chat_collection.insert_one(bot_message_doc) (chat.py:102-103)
SendMessageBot(p) ==
    /\ reqs[p].pc = "sm_bot"
    /\ Insert(reqs[p].loc.uid, reqs[p].loc.doc)
    /\ reqs' = [reqs EXCEPT
                  ![p] = [Done(@.op, @.sid,
                               Ok("First message received and bot replied."))
                            EXCEPT !.arg = reqs[p].arg]]
    /\ UNCHANGED <<authVars, clock, consoleVars>>

\* POST /chat/upload-image: the user is resolved (chat.py:113-115).  The
\* service is configured (IMGBB_API_KEY is set).
UploadStart(p, sid, cap) ==
    /\ Free(p)
    /\ LET user == find_user_by_session(sid) IN
       IF user = NotFound
       THEN Begin(p, Done("upload_image", sid, Err(404, "User session not found.")))
       ELSE /\ Room(user[1].id, 1, cap)
            /\ Begin(p, [Idle EXCEPT !.op = "upload_image", !.pc = "up_oracle",
                           !.sid = sid, !.loc = [uid |-> user[1].id,
                                                 doc |-> Msg("user", "", 0)]])
    /\ UNCHANGED <<authVars, chatVars, consoleVars>>

\* What the blob store can answer: a URL, no answer (transport error), an error
\* status, or a body that is not the expected JSON.
BlobOutcomes == {"url", "transport", "status", "unparsable"}

\* An upload that stores its message before it looks at the blob store's answer.
UploadOracleInsertsFirst(p, outcome) ==
    /\ reqs[p].pc = "up_oracle"
    /\ Insert(reqs[p].loc.uid, Msg("user", ImageUrl, Now))
    /\ CASE outcome \in {"transport", "status"} ->
              Finish(p, Err(502, "Failed to upload image to hosting service."))
         [] outcome = "unparsable" ->
              Finish(p, Err(500, "An internal error occurred during image upload."))
         [] outcome = "url" ->
              Finish(p, Ok("Image uploaded successfully."))
    /\ UNCHANGED <<authVars, clock, consoleVars>>

\* requests.post, raise_for_status, response.json()["data"]["url"], and on
\* success the message built with the time of now (chat.py:121-134); a
\* failure is caught by one of the two except clauses (chat.py:139-142).
UploadOracle(p, outcome) ==
    /\ reqs[p].pc = "up_oracle"
    /\ CASE outcome \in {"transport", "status"} ->
              Finish(p, Err(502, "Failed to upload image to hosting service."))
         [] outcome = "unparsable" ->
              Finish(p, Err(500, "An internal error occurred during image upload."))
         [] outcome = "url" ->
              reqs' = [reqs EXCEPT ![p].pc = "up_insert",
                                   ![p].loc.doc = Msg("user", ImageUrl, Now)]
    /\ UNCHANGED <<authVars, chatVars, consoleVars>>

\* chat_collection.insert_one(image_message_doc) (chat.py:135-137)
UploadInsert(p) ==
    /\ reqs[p].pc = "up_insert"
    /\ Insert(reqs[p].loc.uid, reqs[p].loc.doc)
    /\ Finish(p, Ok("Image uploaded successfully."))
    /\ UNCHANGED <<authVars, clock, consoleVars>>

-----------------------------------------------------------------------------
(* The admin console: src/cli.py *)

\* find_user_by_session of cli.py (cli.py:39-49).
cli_find_user_by_session(session_id) ==
    IF StartsWithUser(session_id)
    THEN UserByClerk(session_id)
    ELSE LET session_record == VerifiedSession(session_id) IN
         IF session_record # NotFound
         THEN UserByMobile(session_record[1].mobileNumber)
         ELSE NotFound

\* main up to the start of the listener thread (cli.py:101-120).
ConsoleStart(sid) ==
    /\ admin.pc = "off"
    /\ LET user == cli_find_user_by_session(sid) IN
       IF user = NotFound
       THEN /\ admin' = [admin EXCEPT !.pc = "ended"]
            /\ UNCHANGED poll
       ELSE /\ admin' = [admin EXCEPT !.pc = "input", !.uid = user[1].id]
            /\ poll' = [poll EXCEPT !.pc = "init"]
    /\ UNCHANGED <<authVars, reqs, chatVars, shown, stop>>

\* main up to the start of the listener thread, with the lines
\* display_chat_history prints kept in shown: the whole chat as it is read,
\* in ascending timestamp order (cli.py:63, 67-68, 114).  The listener reads
\* the latest timestamp in a step of its own, PollInit.
ConsoleAttach(sid) ==
    /\ admin.pc = "off"
    /\ LET user == cli_find_user_by_session(sid) IN
       IF user = NotFound
       THEN /\ admin' = [admin EXCEPT !.pc = "ended"]
            /\ UNCHANGED <<poll, shown>>
       ELSE /\ admin' = [admin EXCEPT !.pc = "input", !.uid = user[1].id]
            /\ poll' = [poll EXCEPT !.pc = "init"]
            /\ shown' = SortAsc(chats[user[1].id], DOMAIN chats[user[1].id])
    /\ UNCHANGED <<authVars, reqs, chatVars, stop>>

\* The chat collection the console is attached to.
ConsoleChat == chats[admin.uid]

\* A line typed at the prompt: send_admin_message builds the message with the
\* time of now (cli.py:123-127, 95).
AdminType(text, cap) ==
    /\ admin.pc = "input"
    /\ Room(admin.uid, 1, cap)
    /\ admin' = [admin EXCEPT !.pc = "insert", !.doc = Msg("admin", text, Now)]
    /\ UNCHANGED <<authVars, reqs, chatVars, poll, shown, stop>>

\* chat_collection.insert_one(message_doc) (cli.py:96)
AdminInsert ==
    /\ admin.pc = "insert"
    /\ Insert(admin.uid, admin.doc)
    /\ admin' = [admin EXCEPT !.pc = "input"]
    /\ UNCHANGED <<authVars, reqs, clock, poll, shown, stop>>

\* 'exit', end of input or an interrupt: the finally clause sets the stop
\* event (cli.py:124-125, 128-133).
AdminExit ==
    /\ admin.pc \in {"input", "insert"}
    /\ admin' = [admin EXCEPT !.pc = "ended"]
    /\ stop' = TRUE
    /\ UNCHANGED <<authVars, reqs, chatVars, poll, shown>>

\* main returns and the process ends (cli.py:133-136).  The listener is a
\* daemon thread that main never joins (cli.py:118-120): it is stopped
\* wherever it is, unless it has ended by itself.
ProcessExit ==
    /\ admin.pc = "ended"
    /\ admin' = [admin EXCEPT !.pc = "exited"]
    /\ poll' = [poll EXCEPT !.pc = IF @ \in {"off", "stopped"} THEN @ ELSE "killed"]
    /\ UNCHANGED <<authVars, reqs, chatVars, shown, stop>>

\* The timestamp of the latest message of any sender, 0 for None when the chat
\* is empty (cli.py:73-74).  poll.base and poll.asOf are history: the length
\* of the chat when the cursor was initialised and at the latest query.
LastTimestamp(chan) ==
    IF chan = <<>> THEN 0
    ELSE LET i == CHOOSE i \in DOMAIN chan :
                      \A j \in DOMAIN chan : chan[j].timestamp <= chan[i].timestamp
         IN chan[i].timestamp

PollInit ==
    /\ poll.pc = "init"
    /\ poll' = [poll EXCEPT !.pc = "check", !.cursor = LastTimestamp(ConsoleChat),
                            !.base = Len(ConsoleChat)]
    /\ UNCHANGED <<authVars, reqs, chatVars, admin, shown, stop>>

\* while not stop_event.is_set() (cli.py:75)
PollCheck ==
    /\ poll.pc = "check"
    /\ poll' = [poll EXCEPT !.pc = IF stop THEN "stopped" ELSE "query"]
    /\ UNCHANGED <<authVars, reqs, chatVars, admin, shown, stop>>

\* The positions the poll's query returns: not from the admin and, with a
\* cursor, strictly later than it, ascending (cli.py:77-80).
NewMessages(chan, last_timestamp) ==
    SortAsc(chan, {i \in DOMAIN chan :
                      /\ chan[i].sender # "admin"
                      /\ (last_timestamp # 0 => chan[i].timestamp > last_timestamp)})

\* A listener whose except clause sleeps as a good tick does.
PollQueryNoBackOff(outcome) ==
    /\ poll.pc = "query"
    /\ CASE outcome = "error" ->
              poll' = [poll EXCEPT !.pc = "sleep1", !.raised = TRUE]
         [] outcome = "ok" ->
              LET new_messages == NewMessages(ConsoleChat, poll.cursor) IN
              poll' = [poll EXCEPT
                          !.pc = IF new_messages = <<>> THEN "sleep1" ELSE "show",
                          !.batch = new_messages,
                          !.asOf = Len(ConsoleChat)]
    /\ UNCHANGED <<authVars, reqs, chatVars, admin, shown, stop>>

\* The query of a poll tick; it may raise (cli.py:80, 90-92).  poll.raised is
\* history: the tick ended in the except clause, whose sleep is going on.
PollQuery(outcome) ==
    /\ poll.pc = "query"
    /\ CASE outcome = "error" ->
              poll' = [poll EXCEPT !.pc = "sleep5", !.raised = TRUE]
         [] outcome = "ok" ->
              LET new_messages == NewMessages(ConsoleChat, poll.cursor) IN
              poll' = [poll EXCEPT
                          !.pc = IF new_messages = <<>> THEN "sleep1" ELSE "show",
                          !.batch = new_messages,
                          !.asOf = Len(ConsoleChat)]
    /\ UNCHANGED <<authVars, reqs, chatVars, admin, shown, stop>>

\* One message of the batch (cli.py:82-88): printed and the cursor moved to it;
\* or an error before the print; or an error after the print (on writing the
\* prompt or flushing), which leaves the cursor where it was.  An error ends
\* the tick in the except clause.
PollShow(outcome) ==
    /\ poll.pc = "show"
    /\ outcome # "error_before_print" => Len(shown) < MaxShown
    /\ LET i == Head(poll.batch) IN
       CASE outcome = "ok" ->
              /\ shown' = Append(shown, i)
              /\ poll' = [poll EXCEPT
                            !.cursor = ConsoleChat[i].timestamp,
                            !.batch = Tail(@),
                            !.pc = IF Tail(poll.batch) = <<>> THEN "sleep1" ELSE "show"]
         [] outcome = "error_before_print" ->
              /\ poll' = [poll EXCEPT !.batch = <<>>, !.pc = "sleep5",
                                      !.raised = TRUE]
              /\ UNCHANGED shown
         [] outcome = "error_after_print" ->
              /\ shown' = Append(shown, i)
              /\ poll' = [poll EXCEPT !.batch = <<>>, !.pc = "sleep5",
                                      !.raised = TRUE]
    /\ UNCHANGED <<authVars, reqs, chatVars, admin, stop>>

\* The seconds the listener sleeps at a position (cli.py:89, 92).
Wait(pc) == CASE pc = "sleep1" -> 1 [] pc = "sleep5" -> 5 [] OTHER -> 0

\* time.sleep(1) after a tick, time.sleep(5) after an error (cli.py:89, 92).
PollWake ==
    /\ poll.pc \in {"sleep1", "sleep5"}
    /\ poll' = [poll EXCEPT !.pc = "check", !.raised = FALSE]
    /\ UNCHANGED <<authVars, reqs, chatVars, admin, shown, stop>>

-----------------------------------------------------------------------------
(* Inputs *)

\* Session ids clients send: every token the oracle may issue (issued or not)
\* and the Clerk ids.
TokenIds == {Tok(n) : n \in 1..MaxTokens}

SessionIds == TokenIds \cup ClerkIds

\* Numbers sent to add-mobile-to-google-user: empty, too short, too long, ten
\* digits, and ten characters that are not all digits.
MobileInputs ==
    {<<>>, SubSeq(M1, 1, 9), M1 \o <<"0">>, M1, M2,
     <<"9", "8", "7", "6", "5", "a", "b", "c", "d", "e">>}

\* Full maps over the nine flags.
PrefInputs ==
    {[f \in Flags |-> FALSE],
     [f \in Flags |-> f # "pushPromotions"]}

\* Maps a request can carry (UpdatePreferencesRequest.preferences is a
\* Dict[str, bool], auth.py:79-81: any string keys, boolean values): the full
\* maps, a map with a key that is no flag, and a map of such a key alone.
OpenPrefInputs ==
    PrefInputs \cup {[f \in Flags \cup {"theme"} |-> TRUE], [f \in {"theme"} |-> FALSE]}

\* A step of send_otp or verify_otp in slot p, for a number of mobiles.
OtpStep(p, mobiles) ==
    \/ \E m \in mobiles, o \in OracleOutcomes : SendOtpCall(p, m, o)
    \/ SendOtpUpsert(p)
    \/ SendOtpInsert(p)
    \/ \E sid \in TokenIds : VerifyOtpFind(p, sid)
    \/ \E o \in OracleOutcomes : VerifyOtpOracle(p, o)
    \/ VerifyOtpUpdate(p)
    \/ VerifyOtpReturn(p)

ValidateStep(p) ==
    \E sid \in TokenIds : ValidateSession(p, sid)

\* A step of save_user_details in slot p, its number from mobiles.
SaveDetailsStep(p, mobiles) ==
    \/ \E sid \in TokenIds, m \in mobiles, fn \in FirstNames, em \in {E1, None} :
          SaveDetailsFindSession(p, sid, m, fn, None, em)
    \/ SaveDetailsFindUser(p)
    \/ SaveDetailsWrite(p)
    \/ SaveDetailsPrefs(p)
    \/ SaveDetailsSession(p)

\* save_google_user_details in slot p, for the given Clerk ids and emails (and
\* an empty Clerk id).
SaveGoogleStep(p, clerks, emails) ==
    \E c \in clerks \cup {<<>>}, e \in emails, fn \in FirstNames :
          SaveGoogleUserDetails(p, c, e, fn, None)

\* add_mobile_to_google_user in slot p, its number from numbers.
AddMobileStep(p, clerks, numbers) ==
    \E c \in clerks \cup {<<>>}, m \in numbers : AddMobileToGoogleUser(p, c, m)

\* A preferences request in slot p.
PrefsStep(p) ==
    \/ \E s \in SessionIds : GetPreferences(p, s)
    \/ \E s \in SessionIds, P \in PrefInputs : UpdatePreferences(p, s, P)

\* get_preferences or update_preferences in slot p, any map a request can
\* carry.
OpenPrefsStep(p) ==
    \/ \E s \in TokenIds : GetPreferences(p, s)
    \/ \E s \in TokenIds, P \in OpenPrefInputs : UpdatePreferences(p, s, P)

\* Fields sent to update-user-details (firstName, lastName, email): none, the
\* first name alone, and the other two, the email being the Google account's.
DetailInputs ==
    {<<None, None, None>>, <<<<"Bob">>, None, None>>, <<None, <<"Lee">>, E1>>}

\* A step of update_user_details in slot p.
UpdateDetailsStep(p) ==
    \/ \E sid \in SessionIds, d \in DetailInputs :
          UpdateDetailsResolve(p, sid, d[1], d[2], d[3])
    \/ UpdateDetailsSession(p)
    \/ UpdateDetailsWrite(p)

Init ==
    /\ AuthInit
    /\ reqs = [p \in Procs |-> Idle]
    /\ chats = [id \in 1..MaxUsers |-> <<>>]
    /\ clock = 1
    /\ admin = [pc |-> "off", uid |-> 0, doc |-> Msg("admin", "", 0)]
    /\ poll = [pc |-> "off", cursor |-> 0, batch |-> <<>>, base |-> 0, asOf |-> 0,
               raised |-> FALSE]
    /\ shown = <<>>
    /\ stop = FALSE

\* Requests of both schemes, handled one after the other.
Next ==
    \/ OtpStep(1, Mobiles)
    \/ ValidateStep(1)
    \/ SaveDetailsStep(1, Mobiles)
    \/ SaveGoogleStep(1, {Clerk(1)}, {E1})
    \/ AddMobileStep(1, {Clerk(1)}, Mobiles)

Spec == Init /\ [][Next]_vars

\* The OTP scheme alone, requests handled one after the other.
NextOtp == OtpStep(1, Mobiles) \/ ValidateStep(1) \/ SaveDetailsStep(1, Mobiles)

SpecOtp == Init /\ [][NextOtp]_vars

\* The OTP scheme with overlapping requests.
NextOtpConc == \E p \in Procs : OtpStep(p, Mobiles)

SpecOtpConc == Init /\ [][NextOtpConc]_vars

\* The Google scheme alone.
NextGoogle ==
    SaveGoogleStep(1, ClerkIds, Emails) \/ AddMobileStep(1, ClerkIds, MobileInputs)

SpecGoogle == Init /\ [][NextGoogle]_vars

\* Preferences of users of both schemes.
NextPrefs ==
    \/ OtpStep(1, {M1})
    \/ SaveDetailsStep(1, {M1})
    \/ SaveGoogleStep(1, {Clerk(1)}, {E1})
    \/ PrefsStep(1)

SpecPrefs == Init /\ [][NextPrefs]_vars

\* A mobile user's preferences, written with any map a request can carry.
NextPrefKeys == OtpStep(1, {M1}) \/ SaveDetailsStep(1, {M1}) \/ OpenPrefsStep(1)

SpecPrefKeys == Init /\ [][NextPrefKeys]_vars


\* The state after one user registered through the OTP scheme (send_otp,
\* verify_otp and save_user_details for M1, in that order, from Init).
Registered ==
    /\ sessions = <<[mobileNumber |-> M1, sessionId |-> Tok(1), verified |-> TRUE,
                     userDetailsCompleted |-> TRUE]>>
    /\ users = <<[id |-> 1, mobileNumber |-> M1, firstName |-> <<"Ann">>,
                  lastName |-> None, email |-> None, clerkSessionId |-> None,
                  authProvider |-> None, origin |-> "mobile"]>>
    /\ prefs = <<[userId |-> 1, sessionId |-> Tok(1), clerkSessionId |-> None,
                  preferences |-> DEFAULT_PREFERENCES]>>
    /\ nextTok = 2
    /\ issued = <<[mobileNumber |-> M1, newUser |-> TRUE]>>
    /\ saved = {Tok(1)}
    /\ written = <<>>

InitChat ==
    /\ Registered
    /\ reqs = [p \in Procs |-> Idle]
    /\ chats = [id \in 1..MaxUsers |-> <<>>]
    /\ clock = 1
    /\ admin = [pc |-> "off", uid |-> 0, doc |-> Msg("admin", "", 0)]
    /\ poll = [pc |-> "off", cursor |-> 0, batch |-> <<>>, base |-> 0, asOf |-> 0,
               raised |-> FALSE]
    /\ shown = <<>>
    /\ stop = FALSE

\* get_user_profile in slot p, for a session id of either scheme.
ProfileStep(p) == \E s \in SessionIds : GetUserProfile(p, s)

\* Users of both schemes come to be, and profiles are fetched.
NextResolve ==
    \/ OtpStep(1, {M1})
    \/ SaveDetailsStep(1, {M1})
    \/ SaveGoogleStep(1, {Clerk(1)}, {E1})
    \/ AddMobileStep(1, {Clerk(1)}, {M1})
    \/ ProfileStep(1)

SpecResolve == Init /\ [][NextResolve]_vars

\* A step of save_user_details in slot p for a number whose user exists: the
\* steps of SaveDetailsStep but the default preferences of a new user.
SaveDetailsAgain(p, mobiles) ==
    \/ \E sid \in TokenIds, m \in mobiles, fn \in FirstNames, em \in {E1, None} :
          SaveDetailsFindSession(p, sid, m, fn, None, em)
    \/ SaveDetailsFindUser(p)
    \/ SaveDetailsWrite(p)
    \/ SaveDetailsSession(p)

\* One person in both schemes, from the state with the mobile user registered:
\* profile saves for M1, Google logins with either Clerk id under one email,
\* the number attached and details updated.
NextLink ==
    \/ SaveDetailsAgain(1, {M1})
    \/ SaveGoogleStep(1, ClerkIds, {E1})
    \/ AddMobileStep(1, ClerkIds, {M1})
    \/ UpdateDetailsStep(1)

SpecLink == InitChat /\ [][NextLink]_vars

Texts == {"hello"}

\* A step of a send_message request in slot p, in a run of at most cap
\* messages.
SendMessageIn(p, cap) ==
    \/ \E sid \in TokenIds, t \in Texts : SendMessageStart(p, sid, t, cap)
    \/ SendMessageInsert(p)
    \/ SendMessageCount(p)
    \/ SendMessageBot(p)

SendMessageStep(p) == SendMessageIn(p, MaxMsgs)

\* A step of an upload_image request in slot p, in a run of at most cap
\* messages.
UploadIn(p, cap) ==
    \/ \E sid \in TokenIds : UploadStart(p, sid, cap)
    \/ \E o \in BlobOutcomes : UploadOracle(p, o)
    \/ UploadInsert(p)

UploadStep(p) == UploadIn(p, MaxMsgs)

\* get_chat_history in slot p.
HistoryStep(p) == \E sid \in TokenIds : GetChatHistory(p, sid)

\* A step of the console's foreground loop, in a run of at most cap messages.
AdminIn(cap) ==
    \/ \E sid \in TokenIds : ConsoleStart(sid)
    \/ \E t \in {"reply"} : AdminType(t, cap)
    \/ AdminInsert
    \/ AdminExit

AdminStep == AdminIn(MaxMsgs)

\* A step of the console's listener thread.
PollStep ==
    \/ PollInit
    \/ PollCheck
    \/ \E o \in {"ok", "error"} : PollQuery(o)
    \/ \E o \in {"ok", "error_before_print", "error_after_print"} : PollShow(o)
    \/ PollWake

\* The console attaching to a chat a user writes to: the history print, the
\* admin typing, and the listener with every poll succeeding.
NextAttach ==
    \/ SendMessageStep(1)
    \/ \E sid \in TokenIds : ConsoleAttach(sid)
    \/ \E t \in {"reply"} : AdminType(t, MaxMsgs)
    \/ AdminInsert
    \/ AdminExit
    \/ PollInit \/ PollCheck \/ PollQuery("ok") \/ PollShow("ok") \/ PollWake
    \/ Tick

SpecAttach == InitChat /\ [][NextAttach]_vars

\* Overlapping chat requests of a registered user, and the admin typing.
NextChat ==
    \/ \E p \in Procs : SendMessageStep(p) \/ UploadStep(p) \/ HistoryStep(p)
    \/ AdminStep
    \/ Tick

SpecChat == InitChat /\ [][NextChat]_vars

\* The console tailing the chat while a send_message request and an
\* upload_image request overlap.
NextTail == SendMessageStep(1) \/ UploadStep(2) \/ AdminStep \/ PollStep \/ Tick

SpecTail == InitChat /\ [][NextTail]_vars

\* The console from start to the end of its process, tailing a chat a user
\* writes to.
NextExit == SendMessageStep(1) \/ AdminStep \/ ProcessExit \/ PollStep \/ Tick

SpecExit == InitChat /\ [][NextExit]_vars

\* Every operation on a chat: the writers, the history read, and the console's
\* listener with every poll succeeding.
NextLog ==
    \/ SendMessageStep(1) \/ UploadStep(2) \/ HistoryStep(2)
    \/ AdminStep
    \/ PollInit \/ PollCheck \/ PollQuery("ok") \/ PollShow("ok") \/ PollWake
    \/ Tick

SpecLog == InitChat /\ [][NextLog]_vars

\* Every slot sending or uploading at once while the admin types, with room
\* for each slot's first message and its welcome.
NextBurst ==
    \/ \E p \in Procs : SendMessageIn(p, MaxBurst) \/ UploadIn(p, MaxBurst)
    \/ AdminIn(MaxBurst)

SpecBurst == InitChat /\ [][NextBurst]_vars

-----------------------------------------------------------------------------
(* Properties *)

\* No request is in progress.
Quiescent == \A p \in Procs : Free(p)

\* Slot p has just answered a request of operation op.
Answers(p, op) ==
    /\ reqs'[p] # reqs[p]
    /\ reqs'[p].op = op
    /\ reqs'[p].pc = "done"

\* A verified session with id s whose mobile number some user holds.
VerifiedWithUser(s) ==
    \E i \in DOMAIN sessions :
        /\ sessions[i].sessionId = s
        /\ sessions[i].verified
        /\ \E j \in DOMAIN users : users[j].mobileNumber = sessions[i].mobileNumber

\* C1: whatever operations came before, validate_session(s) for a mobile
\* session id s answers success = TRUE exactly when a session with id s is
\* verified and a user holds that session's mobile number, answers
\* success = FALSE otherwise (a 200 response in both cases), and changes no
\* record.
C1_ValidateSessionIff ==
    [][\A p \in Procs :
          Answers(p, "validate_session") =>
              /\ reqs'[p].resp = Ok([success |-> VerifiedWithUser(reqs'[p].sid)])
              /\ UNCHANGED <<sessions, users, prefs>>]_vars

\* validate_session has answered TRUE for a token and FALSE is no longer the
\* only answer seen: the verified session's number has a user.
C1_Witness ==
    \E p \in Procs :
        /\ reqs[p].op = "validate_session"
        /\ reqs[p].pc = "done"
        /\ reqs[p].resp = Ok([success |-> TRUE])
        /\ VerifiedWithUser(reqs[p].sid)

\* The session with id s is verified.
IsVerified(s) ==
    \E i \in DOMAIN sessions : sessions[i].sessionId = s /\ sessions[i].verified

\* C2: for a number without a user when send_otp issued token T, once
\* verify_otp(T) has succeeded and while T is still the number's token,
\* validate_session(T) is FALSE until save_user_details has succeeded for T
\* and TRUE from then on.
C2_ValidOnlyAfterSave ==
    Quiescent =>
        \A n \in DOMAIN issued :
            (issued[n].newUser /\ IsVerified(Tok(n))) =>
                (validate_session(Tok(n)).success <=> Tok(n) \in saved)

\* Tokens n1 and n2 were issued in this order for the same number, and n2 is
\* the last one issued for it.
Superseded(n1, n2) ==
    /\ n1 < n2
    /\ issued[n1].mobileNumber = issued[n2].mobileNumber
    /\ \A n \in DOMAIN issued :
          n > n2 => issued[n].mobileNumber # issued[n2].mobileNumber

\* C3: after two sequential send_otp calls for one number returned T1 then
\* T2, verify_otp(T1) fails with 400 "Invalid or expired sessionId" and
\* leaves the sessions as they are, and a verify_otp(T2) that succeeds has
\* marked the session with id T2 verified.
C3_OnlyLatestToken ==
    [][\A p \in Procs : \A n1, n2 \in DOMAIN issued :
          (Superseded(n1, n2) /\ Answers(p, "verify_otp")) =>
              /\ reqs'[p].sid = Tok(n1) =>
                    /\ reqs'[p].resp = Err(400, "Invalid or expired sessionId")
                    /\ UNCHANGED sessions
              /\ (reqs'[p].sid = Tok(n2) /\ reqs'[p].resp.status = 200) =>
                    \E i \in DOMAIN sessions' :
                        /\ sessions'[i].sessionId = Tok(n2)
                        /\ sessions'[i].verified]_vars

\* Both tokens went to M1; verify_otp with the first one was refused while the
\* one session of M1 carries the second.
C3_Witness ==
    /\ Len(issued) = 2
    /\ Superseded(1, 2)
    /\ reqs[1].op = "verify_otp"
    /\ reqs[1].pc = "done"
    /\ reqs[1].sid = Tok(1)
    /\ reqs[1].resp = Err(400, "Invalid or expired sessionId")
    /\ \E i \in DOMAIN sessions : sessions[i].sessionId = Tok(2)

\* C4: a send_message called on an empty chat leaves its user message
\* immediately followed by the chat's one bot message, and a send_message
\* called when the chat already had a user message appends no bot message,
\* also when other sends, uploads or admin messages overlap with it.
C4_FirstSendWelcomed ==
    \A p \in Procs :
        (reqs[p].op = "send_message" /\ reqs[p].pc = "done"
            /\ reqs[p].resp.status = 200) =>
            LET a == reqs[p].arg
                chan == chats[a.uid]
            IN
            /\ a.first =>
                  /\ Len(chan) > a.mine
                  /\ chan[a.mine + 1].sender = "bot"
                  /\ Cardinality({i \in DOMAIN chan : chan[i].sender = "bot"}) = 1
            /\ a.later => reqs[p].resp.body = "Message received."

\* C5: an upload_image whose blob store call fails answers with an error and
\* appends nothing: the only step of an upload that changes a chat is the
\* insert made after the blob store returned a URL, it appends that one
\* message, and the request then succeeds.
C5_FailedUploadAppendsNothing ==
    [][\A p \in Procs :
          (reqs'[p] # reqs[p] /\ reqs'[p].op = "upload_image") =>
              /\ (reqs'[p].pc = "done" /\ reqs'[p].resp.status # 200) =>
                    UNCHANGED chats
              /\ chats' # chats =>
                    /\ reqs[p].pc = "up_insert"
                    /\ reqs'[p].resp.status = 200
                    /\ chats' = [chats EXCEPT ![reqs[p].loc.uid] =
                                    Append(@, Msg("user", ImageUrl,
                                                  reqs[p].loc.doc.timestamp))]]_vars

\* One upload failed in the blob store and another went through: the chat
\* holds the one image message.
C5_Witness ==
    /\ reqs[1].op = "upload_image" /\ reqs[1].pc = "done"
    /\ reqs[1].resp.status = 502
    /\ reqs[2].op = "upload_image" /\ reqs[2].pc = "done"
    /\ reqs[2].resp.status = 200
    /\ Len(chats[1]) = 1
    /\ chats[1][1].text = ImageUrl

\* The chat positions the listener has printed.
Shown == {shown[k] : k \in DOMAIN shown}

\* C6: no message of the user or the bot appended after the listener
\* initialised its cursor is skipped: when a poll tick has ended without an
\* error, every such message that was in the chat at the tick's query has
\* been printed (a message a tick leaves out is at or before the cursor and
\* is left out by every later tick).
C6_NoMessageSkipped ==
    poll.pc = "sleep1" =>
        \A i \in (poll.base + 1)..poll.asOf :
            ConsoleChat[i].sender # "admin" => i \in Shown

\* C7: the listener prints messages in ascending timestamp order, prints no
\* message twice, and never moves its cursor back, also when a tick fails
\* part-way through a batch and the loop retries.
C7_OrderedOnce ==
    [][/\ poll'.cursor >= poll.cursor
       /\ \A k, l \in DOMAIN shown' :
             k < l =>
                /\ shown'[k] # shown'[l]
                /\ ConsoleChat'[shown'[k]].timestamp
                      <= ConsoleChat'[shown'[l]].timestamp]_vars

Digits == {"0", "1", "2", "3", "4", "5", "6", "7", "8", "9"}

\* Exactly ten characters, each a digit.
TenDigits(m) == Len(m) = MobileLen /\ \A i \in DOMAIN m : m[i] \in Digits

\* C8: add_mobile_to_google_user, called for an existing Google user with a
\* mobileNumber that is not exactly 10 digits, answers 400, and no user
\* record ever holds such a number.
C8_RejectsNonTenDigits ==
    /\ \A p \in Procs :
          (/\ reqs[p].op = "add_mobile_to_google_user"
           /\ reqs[p].pc = "done"
           /\ UserByClerk(reqs[p].sid) # NotFound
           /\ ~TenDigits(reqs[p].mob)) => reqs[p].resp.status = 400
    /\ \A j \in DOMAIN users :
          users[j].mobileNumber # None => TenDigits(users[j].mobileNumber)

\* C9: after update_preferences(s, P) succeeded, and until the next
\* update_preferences for s, get_preferences(s) returns exactly P whenever s
\* resolves to a user.
C9_PreferencesRoundTrip ==
    /\ \A s \in DOMAIN written :
          get_user_by_session(s) # NotFound => get_preferences(s) = Ok(written[s])
    /\ \A p \in Procs :
          (/\ reqs[p].op = "get_preferences"
           /\ reqs[p].pc = "done"
           /\ reqs[p].sid \in DOMAIN written
           /\ reqs[p].resp.status = 200) =>
              reqs[p].resp.body = written[reqs[p].sid]

\* get_preferences has returned a map that update_preferences wrote for the
\* same session id and that differs from the defaults.
C9_Witness ==
    \E p \in Procs :
        /\ reqs[p].op = "get_preferences"
        /\ reqs[p].pc = "done"
        /\ reqs[p].sid \in DOMAIN written
        /\ reqs[p].resp = Ok(written[reqs[p].sid])
        /\ written[reqs[p].sid] # DEFAULT_PREFERENCES

\* C10: the sessions store holds at most one document per mobileNumber, also
\* when send_otp calls for one number overlap, and each document carries a
\* token issued for its number.
C10_OneSessionPerMobile ==
    /\ \A i, j \in DOMAIN sessions :
          sessions[i].mobileNumber = sessions[j].mobileNumber => i = j
    /\ \A i \in DOMAIN sessions : \E n \in DOMAIN issued :
          /\ sessions[i].sessionId = Tok(n)
          /\ issued[n].mobileNumber = sessions[i].mobileNumber

\* C11: every chat is append-only: each step of send_message, upload_image,
\* send_admin_message, get_chat_history and the listener leaves the messages
\* a chat holds in place, with their sender, text and timestamp, and at most
\* adds messages after them.
C11_AppendOnly ==
    [][\A id \in DOMAIN chats :
          /\ Len(chats'[id]) >= Len(chats[id])
          /\ SubSeq(chats'[id], 1, Len(chats[id])) = chats[id]]_vars

\* A chat of several messages that the history read has returned and the
\* listener has printed from.
C11_Witness ==
    /\ Len(chats[1]) >= 2
    /\ shown # <<>>
    /\ reqs[2].op = "get_chat_history"
    /\ reqs[2].pc = "done"
    /\ Len(reqs[2].resp.body) >= 2

\* C12: no two user records share a non-null mobileNumber, after any
\* sequence of save_user_details, save_google_user_details and
\* add_mobile_to_google_user.
C12_UniqueMobile ==
    \A i, j \in DOMAIN users :
        (users[i].mobileNumber # None
            /\ users[i].mobileNumber = users[j].mobileNumber) => i = j

\* A session with id s is verified and stored for the mobile number m.
VerifiedFor(s, m) ==
    \E i \in DOMAIN sessions :
        /\ sessions[i].sessionId = s
        /\ sessions[i].verified
        /\ sessions[i].mobileNumber = m

\* C13: save_user_details(sessionId, mobileNumber, ...) answers 400 and leaves
\* users, preferences and sessions unchanged whenever no session with that id
\* is verified or the number differs from the session's, and a step of the
\* request writes to a store only when both checks pass.
C13_SaveDetailsChecks ==
    [][\A p \in Procs :
          (reqs'[p] # reqs[p] /\ reqs'[p].op = "save_user_details") =>
              LET ok == VerifiedFor(reqs'[p].sid, reqs'[p].mob) IN
              /\ (Free(p) /\ ~ok) =>
                    /\ reqs'[p].pc = "done"
                    /\ reqs'[p].resp.status = 400
                    /\ UNCHANGED <<sessions, users, prefs>>
              /\ (Free(p) /\ ok) => reqs'[p].pc = "sd_finduser"
              /\ <<sessions, users, prefs>>' # <<sessions, users, prefs>> =>
                    VerifiedFor(reqs[p].sid, reqs[p].mob)]_vars

\* save_user_details was refused for a number that is not the verified
\* session's.
C13_Witness ==
    \E p \in Procs :
        /\ reqs[p].op = "save_user_details"
        /\ reqs[p].pc = "done"
        /\ reqs[p].resp = Err(400, "Mobile number mismatch")
        /\ IsVerified(reqs[p].sid)
        /\ ~VerifiedFor(reqs[p].sid, reqs[p].mob)

\* C14: whenever verify_otp(sessionId, code) answers success, a session with
\* that sessionId exists and is verified at the moment of the answer, also
\* when a send_otp for the same number runs between verify_otp's lookup and
\* its update.
C14_VerifiedOnSuccess ==
    [][\A p \in Procs :
          (Answers(p, "verify_otp") /\ reqs'[p].resp.status = 200) =>
              \E i \in DOMAIN sessions' :
                  /\ sessions'[i].sessionId = reqs'[p].sid
                  /\ sessions'[i].verified]_vars

\* C15: update_preferences refuses every map with a key that is not one of
\* the nine flags or with a value that is not a boolean, so every map it
\* accepted, and every stored map, has only flag keys and boolean values.
C15_OnlyFlagKeys ==
    /\ \A s \in DOMAIN written :
          /\ DOMAIN written[s] \subseteq Flags
          /\ \A f \in DOMAIN written[s] : written[s][f] \in BOOLEAN
    /\ \A i \in DOMAIN prefs : DOMAIN prefs[i].preferences \subseteq Flags

\* The listener thread is running.
Polling == poll.pc \in {"check", "query", "show", "sleep1", "sleep5"}

C17_Cancellation ==
    [][/\ (stop /\ poll.pc # "query") => poll'.pc # "query"
       /\ poll.pc \in {"query", "show"} =>
             poll'.pc \in {"query", "show", "sleep1", "sleep5"}
       /\ (admin'.pc = "ended" /\ poll.pc # "off") => stop']_vars

\* C18: each user record is reachable through the one identity scheme of its
\* authProvider: resolving a mobile session id never returns a record with
\* authProvider google, and resolving a Clerk session id never returns a
\* record the mobile scheme created.
C18_OneSchemePerUser ==
    /\ \A s \in TokenIds :
          LET user == get_user_by_session(s) IN
          user # NotFound => user[1].authProvider # "google"
    /\ \A c \in ClerkIds :
          LET user == get_user_by_session(c) IN
          user # NotFound => user[1].origin # "mobile"

\* The bot messages of a chat.
Bots(chan) == {i \in DOMAIN chan : chan[i].sender = "bot"}

\* C19: in every quiescent state a chat that holds a message of the user
\* also holds a bot welcome message, whichever operation stored the first
\* user message.
C19_WelcomedOnceWritten ==
    Quiescent => \A id \in DOMAIN chats :
                    CountUser(chats[id]) >= 1 => Bots(chats[id]) # {}

\* C20: whatever the interleaving of send_message, upload_image and admin
\* writes on a chat, the chat holds at most one bot message.
C20_AtMostOneWelcome ==
    \A id \in DOMAIN chats : Cardinality(Bots(chats[id])) <= 1

\* Two send_message requests that both began before the chat had a user
\* message have both answered, and the chat holds one welcome.
C20_Witness ==
    /\ \A p \in {1, 2} : /\ reqs[p].op = "send_message" /\ reqs[p].pc = "done"
                         /\ reqs[p].resp.status = 200
                         /\ ~reqs[p].arg.later
    /\ Cardinality(Bots(chats[1])) = 1

\* C21: the session lifecycle keeps its predecessor states: a session whose
\* userDetailsCompleted is true is verified, also after a further send_otp
\* for its mobile number.
C21_CompletedIsVerified ==
    \A i \in DOMAIN sessions :
        sessions[i].userDetailsCompleted => sessions[i].verified

\* C22: account linking is one-way: a record with authProvider google that
\* has a mobile number is still there, with a mobile number, after every step
\* of save_google_user_details, add_mobile_to_google_user,
\* update_user_details and save_user_details.
C22_LinkingOneWay ==
    [][\A i \in DOMAIN users :
          (users[i].authProvider = "google" /\ users[i].mobileNumber # None) =>
             /\ i \in DOMAIN users'
             /\ users'[i].id = users[i].id
             /\ users'[i].mobileNumber # None]_vars

\* A Google login has just found the record a number was attached to, and the
\* record holds the login's Clerk id and the number.
C22_Witness ==
    /\ reqs[1].op = "save_google_user_details" /\ reqs[1].pc = "done"
    /\ reqs[1].resp.status = 200
    /\ reqs[1].resp.body.userExists
    /\ \E i \in DOMAIN users :
          /\ users[i].origin = "google"
          /\ users[i].clerkSessionId = reqs[1].sid
          /\ users[i].mobileNumber = M1

\* C23: preferences are 1:1 with users: no two preferences records have the
\* same userId, also after the user got a new session id and updated the
\* preferences with it.
C23_OnePrefsPerUser ==
    \A i, j \in DOMAIN prefs : prefs[i].userId = prefs[j].userId => i = j

\* C24: a successful update_user_details with a field present leaves the
\* record of the user its session id resolves to with the request's value in
\* every present field, and every other field and record as it was; with no
\* field present it succeeds and changes nothing.  The user may be of either
\* scheme, a Google user resolved from a mobile session id included.
C24_UpdateDetailsExact ==
    [][\A p \in Procs :
          (Answers(p, "update_user_details") /\ reqs'[p].resp.status = 200) =>
             LET r == reqs'[p]
                 user == get_user_by_session(r.sid)
             IN
             IF r.firstName = None /\ r.lastName = None /\ r.email = None
             THEN users' = users
             ELSE /\ user # NotFound
                  /\ users' = [users EXCEPT ![user[1].id] =
                         [@ EXCEPT
                            !.firstName = IF r.firstName # None THEN r.firstName ELSE @,
                            !.lastName = IF r.lastName # None THEN r.lastName ELSE @,
                            !.email = IF r.email # None THEN r.email ELSE @]]]_vars

\* C25: every consumer resolves a session id alike: for each session id of
\* either scheme the auth resolver, the chat resolver and the console's
\* resolver return the same user record or all none, and the profile fetch
\* returns that record's profile or fails when there is none.
C25_ResolversAgree ==
    \A s \in SessionIds :
        LET user == get_user_by_session(s) IN
        /\ find_user_by_session(s) = user
        /\ cli_find_user_by_session(s) = user
        /\ IF user = NotFound
           THEN get_user_profile(s).status # 200
           ELSE get_user_profile(s) = Ok(Profile(user[1]))

\* C26: the console shows every message of the user or the bot that is in
\* the chat while it is attached: when a poll tick has ended without an
\* error, every such message that was in the chat at the tick's query has
\* been printed, by the history print or by the listener, a message appended
\* between the history print and the listener's first read included.
C26_AllShown ==
    poll.pc = "sleep1" =>
        \A i \in 1..poll.asOf : ConsoleChat[i].sender # "admin" => i \in Shown

====
